---- MODULE Spec2Model ----
(***************************************************************************)
(* The CircularTimer component of src/unnamed/part_000 (a React function   *)
(* component): a 60 second countdown driven by requestAnimationFrame, and  *)
(* the colour of every dot of its layout as a function of the time left.   *)
(*                                                                         *)
(* React state set through a setter is not visible until React renders     *)
(* again.  A click handler's updates are rendered, and the effects of that *)
(* render run, before the click's event ends, so no frame callback runs    *)
(* between a command and its cleanup.  An update made inside an animation  *)
(* frame callback is queued and rendered by a later task, so a click may   *)
(* arrive between the callback and that render.  The queue of the frame    *)
(* callbacks is pendTimeLeft/pendIsRunning; updates are applied in the     *)
(* order they were made, and the render of a click is taken to apply the   *)
(* updates queued before it as well.                                       *)
(***************************************************************************)
EXTENDS Integers, Sequences, FiniteSets

VARIABLES
  timeLeft,           \* useState(60), line 28: the value of the last render
  isRunning,          \* useState(false), line 29
  hasStarted,         \* useState(false), line 30
  animationFrameRef,  \* useRef(null), line 34: 0 is null
  startTimeRef,       \* useRef(null), line 35: 0 is null (both are falsy)
  frames,             \* the callbacks requestAnimationFrame holds, uncancelled
  pendTimeLeft,       \* queued setTimeLeft of a frame callback: <<n>>, or << >>
  pendIsRunning,      \* queued setIsRunning(false) of a frame callback
  now,                \* the host's clock, ms since the time origin
  lastCmd,            \* history: what the last click did
  sinceCmd            \* history: ms since the last start/resume (capped), or -1

vars == <<timeLeft, isRunning, hasStarted, animationFrameRef, startTimeRef,
          frames, pendTimeLeft, pendIsRunning, now, lastCmd, sinceCmd>>

(* ----------------------------- bounds ---------------------------------- *)
TickMs == 1000      \* the clock advances in steps of TickMs
MaxTicks == 64      \* the clock stops after MaxTicks steps
MaxHandle == 3      \* request ids are drawn from 1..MaxHandle
SinceCap == 2       \* sinceCmd saturates at SinceCap steps
LongTicks == 7      \* a step of the coarse clock, in steps of TickMs

(* ------------------------ program constants ---------------------------- *)
CIRCLE_SIZE == 8
RADIUS == 96
NUM_RINGS == 5
Duration == 60      \* the literal 60 of lines 28, 94, 137, 147
LastSecond == 59    \* the literal 59 of line 126
MsPerSecond == 1000 \* the literal 1000 of line 93
PiNum == 355        \* Math.PI as PiNum / PiDen
PiDen == 113

NoUpdate == << >>
White == "rgb(255, 255, 255)"
Dark == "#1e1e1e"

Max(a, b) == IF a >= b THEN a ELSE b
Min(a, b) == IF a <= b THEN a ELSE b

(* ------------------------------ layout --------------------------------- *)
\* line 45-47: floor(2 * PI * ring * (RADIUS / NUM_RINGS) / (CIRCLE_SIZE * 2))
numCircles(ring) ==
  (2 * PiNum * ring * RADIUS) \div (PiDen * NUM_RINGS * CIRCLE_SIZE * 2)

\* lines 39-77: rings from the outer one inwards, then the center dot; the
\* coordinates play no part in the colour and are left out
RECURSIVE generateRings(_, _)
generateRings(ring, sequenceIndex) ==
  IF ring < 1
  THEN << [ring |-> 0, sequenceIndex |-> sequenceIndex] >>
  ELSE [i \in 1..numCircles(ring) |->
          [ring |-> ring, sequenceIndex |-> sequenceIndex + i - 1]]
       \o generateRings(ring - 1, sequenceIndex + numCircles(ring))

circlePositions == generateRings(NUM_RINGS, 0)

totalCircles == Len(circlePositions) - 1

(* ------------------------------ colour --------------------------------- *)
\* line 127 with Math.floor for Math.ceil
activeCircleCountFloor(currentTime) ==
  ((currentTime - 1) * totalCircles) \div LastSecond

\* Math.ceil(((currentTime - 1) / 59) * totalCircles), for currentTime >= 1
activeCircleCount(currentTime) ==
  ((currentTime - 1) * totalCircles + LastSecond - 1) \div LastSecond

\* line 124 with < for <=
getCircleColorLate(circle, currentTime) ==
  IF ~hasStarted THEN White
  ELSE IF circle.ring = 0 THEN (IF currentTime = 0 THEN Dark ELSE White)
  ELSE IF currentTime < 1 THEN Dark
  ELSE IF circle.sequenceIndex > totalCircles - activeCircleCount(currentTime)
       THEN Dark ELSE White

getCircleColor(circle, currentTime) ==
  IF ~hasStarted THEN White
  ELSE IF circle.ring = 0 THEN (IF currentTime = 0 THEN Dark ELSE White)
  ELSE IF currentTime <= 1 THEN Dark
  ELSE IF circle.sequenceIndex > totalCircles - activeCircleCount(currentTime)
       THEN Dark ELSE White

\* line 156
isActive(circle) == getCircleColor(circle, timeLeft) = White

(* --------------------------- the host ---------------------------------- *)
Handles == 1..MaxHandle

\* requestAnimationFrame returns an id no pending or remembered request has
FreeHandles(fs, ref) == Handles \ ({f.id : f \in fs} \cup {ref})
NewHandle(fs, ref) == CHOOSE h \in FreeHandles(fs, ref) :
                        \A g \in FreeHandles(fs, ref) : h <= g

cancelAnimationFrame(fs, h) == {f \in fs : f.id # h}

(* --------------------------- the effect -------------------------------- *)
\* the cleanup without the cancel of line 112
CleanupCancelsNothing(fs) == fs

\* lines 110-114, the cleanup of the previous effect
Cleanup(fs) ==
  IF animationFrameRef # 0 THEN cancelAnimationFrame(fs, animationFrameRef)
  ELSE fs

\* the effect body without the request of line 107
EffectSchedulesNever(tl, run) == FALSE

\* lines 106-108: whether the effect body requests a frame
EffectSchedules(tl, run) == run /\ tl > 0

\* A render of (tl, run, hs) and the effect of lines 87-115, which runs when
\* isRunning or timeLeft differ from the previous render. fs: the requests
\* pending when the render starts.
Commit(tl, run, hs, fs) ==
  /\ timeLeft' = tl
  /\ isRunning' = run
  /\ hasStarted' = hs
  /\ pendTimeLeft' = NoUpdate
  /\ pendIsRunning' = FALSE
  /\ IF tl = timeLeft /\ run = isRunning
     THEN /\ frames' = fs
          /\ animationFrameRef' = animationFrameRef
     ELSE IF EffectSchedules(tl, run)
     THEN /\ FreeHandles(Cleanup(fs), animationFrameRef) # {}
          /\ LET h == NewHandle(Cleanup(fs), animationFrameRef)
             IN /\ frames' = Cleanup(fs) \cup {[id |-> h, isRunning |-> run]}
                /\ animationFrameRef' = h
     ELSE /\ frames' = Cleanup(fs)
          /\ animationFrameRef' = animationFrameRef

\* the state the queued updates of the frame callbacks lead to
QueuedTimeLeft == IF pendTimeLeft # NoUpdate THEN pendTimeLeft[1] ELSE timeLeft
QueuedIsRunning == IF pendIsRunning THEN FALSE ELSE isRunning

(* ---------------------------- actions ---------------------------------- *)
Init ==
  /\ timeLeft = Duration
  /\ isRunning = FALSE
  /\ hasStarted = FALSE
  /\ animationFrameRef = 0
  /\ startTimeRef = 0
  /\ frames = {}
  /\ pendTimeLeft = NoUpdate
  /\ pendIsRunning = FALSE
  /\ now = TickMs
  /\ lastCmd = "none"
  /\ sinceCmd = 0 - 1

\* lines 142-151, with the render its updates cause. The handler reads
\* hasStarted, isRunning and timeLeft of the last render (its closure); the
\* updater of line 150 is applied to the queued state.
\* toggleTimer without lines 143-145
ToggleHasStartedKept == hasStarted

ToggleHasStarted == IF ~hasStarted THEN TRUE ELSE hasStarted

\* toggleTimer without line 147
ToggleTimeLeftKept == QueuedTimeLeft

ToggleTimeLeft ==
  IF ~isRunning /\ timeLeft = 0 THEN Duration ELSE QueuedTimeLeft

\* line 146 without the timeLeft === 0 test
ToggleStartTimeCleared ==
  IF ~isRunning THEN 0 ELSE startTimeRef

ToggleStartTime ==
  IF ~isRunning /\ timeLeft = 0 THEN 0 ELSE startTimeRef

ToggleIsRunning == ~QueuedIsRunning

Toggle ==
  /\ startTimeRef' = ToggleStartTime
  /\ Commit(ToggleTimeLeft, ToggleIsRunning, ToggleHasStarted, frames)
  /\ lastCmd' = IF isRunning THEN "pause"
                ELSE IF ~hasStarted THEN "start"
                ELSE IF timeLeft = 0 THEN "restart"
                ELSE "resume"
  /\ sinceCmd' = IF isRunning THEN 0 - 1 ELSE 0
  /\ now' = now

\* lines 132-140, with the render its updates cause
ResetFrames ==
  IF animationFrameRef # 0 THEN cancelAnimationFrame(frames, animationFrameRef)
  ELSE frames

\* reset without line 136
ResetKeepsStartTime ==
  /\ startTimeRef' = startTimeRef
  /\ Commit(Duration, FALSE, FALSE, ResetFrames)
  /\ lastCmd' = "reset"
  /\ sinceCmd' = 0 - 1
  /\ now' = now

Reset ==
  /\ startTimeRef' = 0
  /\ Commit(Duration, FALSE, FALSE, ResetFrames)
  /\ lastCmd' = "reset"
  /\ sinceCmd' = 0 - 1
  /\ now' = now

\* lines 89-91 without the test: every frame restarts the measurement
StartOfLatest(timestamp) == timestamp

\* lines 88-104: the frame callback f runs with timestamp now
StartOf(timestamp) == IF startTimeRef = 0 THEN timestamp ELSE startTimeRef

elapsedTime(timestamp) == (timestamp - StartOf(timestamp)) \div MsPerSecond

\* line 94 without Math.max
newTimeLeftUnclamped(timestamp) == Duration - elapsedTime(timestamp)

newTimeLeft(timestamp) == Max(Duration - elapsedTime(timestamp), 0)

UpdateTimer(f) ==
  LET n == newTimeLeft(now)
      rest == frames \ {f}
  IN /\ pendTimeLeft' = <<n>>
     /\ IF n > 0 /\ f.isRunning
        THEN /\ FreeHandles(rest, animationFrameRef) # {}
             /\ LET h == NewHandle(rest, animationFrameRef)
                IN /\ frames' = rest \cup {[id |-> h, isRunning |-> f.isRunning]}
                   /\ animationFrameRef' = h
             /\ startTimeRef' = StartOf(now)
             /\ pendIsRunning' = pendIsRunning
        ELSE IF n = 0
        THEN /\ frames' = rest
             /\ animationFrameRef' = animationFrameRef
             /\ startTimeRef' = 0
             /\ pendIsRunning' = TRUE
        ELSE /\ frames' = rest
             /\ animationFrameRef' = animationFrameRef
             /\ startTimeRef' = StartOf(now)
             /\ pendIsRunning' = pendIsRunning
     /\ UNCHANGED <<timeLeft, isRunning, hasStarted, now, lastCmd, sinceCmd>>

Frame == \E f \in frames : UpdateTimer(f)

\* React renders the updates a frame callback queued
Render ==
  /\ pendTimeLeft # NoUpdate \/ pendIsRunning
  /\ Commit(QueuedTimeLeft, QueuedIsRunning, hasStarted, frames)
  /\ sinceCmd' = 0 - 1
  /\ UNCHANGED <<startTimeRef, now, lastCmd>>

\* the clock advances; a queued render comes first
Tick ==
  /\ pendTimeLeft = NoUpdate /\ ~pendIsRunning
  /\ now + TickMs <= MaxTicks * TickMs
  /\ now' = now + TickMs
  /\ sinceCmd' = IF sinceCmd < 0 THEN sinceCmd
                 ELSE Min(sinceCmd + TickMs, SinceCap * TickMs)
  /\ UNCHANGED <<timeLeft, isRunning, hasStarted, animationFrameRef,
                 startTimeRef, frames, pendTimeLeft, pendIsRunning, lastCmd>>

Next == Toggle \/ Reset \/ Frame \/ Render \/ Tick

Spec == Init /\ [][Next]_vars

\* The same component on a coarser clock, for the liveness claims. The host
\* runs every requested frame and every queued render, and its clock keeps
\* advancing (up to the bound) whatever is queued; clicks are under no
\* obligation.
LongTick ==
  /\ pendTimeLeft = NoUpdate /\ ~pendIsRunning
  /\ now + LongTicks * TickMs <= MaxTicks * TickMs
  /\ now' = now + LongTicks * TickMs
  /\ sinceCmd' = IF sinceCmd < 0 THEN sinceCmd
                 ELSE Min(sinceCmd + LongTicks * TickMs, SinceCap * TickMs)
  /\ UNCHANGED <<timeLeft, isRunning, hasStarted, animationFrameRef,
                 startTimeRef, frames, pendTimeLeft, pendIsRunning, lastCmd>>

LiveNext == Toggle \/ Reset \/ Frame \/ Render \/ LongTick

LiveSpec ==
  /\ Init
  /\ [][LiveNext]_vars
  /\ WF_vars(Frame)
  /\ WF_vars(Render)
  /\ SF_vars(LongTick)

\* The same program on a display that keeps up with the clock: frames come
\* many times a second (requestAnimationFrame), so the clock is read again
\* only once the countdown shows the second it has reached, and time spent
\* paused or idle is left out. Every behaviour of DisplaySpec is one of
\* Spec. The colour of a dot depends on hasStarted and timeLeft alone
\* (lines 117-130), and DisplaySpec takes timeLeft through 60, 59, ..., 0.
DisplayTick ==
  /\ isRunning
  /\ startTimeRef # 0 => timeLeft = newTimeLeft(now)
  /\ Tick

DisplayNext == Toggle \/ Reset \/ Frame \/ Render \/ DisplayTick

DisplaySpec == Init /\ [][DisplayNext]_vars

TypeOK ==
  /\ timeLeft \in Int
  /\ isRunning \in BOOLEAN
  /\ hasStarted \in BOOLEAN
  /\ animationFrameRef \in 0..MaxHandle
  /\ startTimeRef \in 0..(MaxTicks * TickMs)
  /\ pendTimeLeft \in Seq(Int) /\ Len(pendTimeLeft) <= 1
  /\ pendIsRunning \in BOOLEAN
  /\ now \in 1..(MaxTicks * TickMs)

(* ----------------------------- claims ---------------------------------- *)
NothingQueued == pendTimeLeft = NoUpdate /\ ~pendIsRunning

NonCenter == {i \in 1..Len(circlePositions) : circlePositions[i].ring # 0}

CeilDiv(a, b) == (a + b - 1) \div b

\* C1: a run paused with timeLeft = p > 0 and resumed after any time spent
\* paused continues from p: the first animation step after the resume, taken
\* with no further time elapsed, leaves timeLeft = p.
C1_PauseResumePreservesTimeLeft ==
  (lastCmd = "resume" /\ sinceCmd = 0 /\ pendTimeLeft # NoUpdate)
    => pendTimeLeft[1] = timeLeft

\* C2: after reset, whatever the state it was issued in, timeLeft = 60,
\* isRunning = false, hasStarted = false, the start instant is unset and no
\* animation step is pending; a further reset changes nothing.
C2_ResetState ==
  /\ timeLeft = Duration
  /\ ~isRunning
  /\ ~hasStarted
  /\ startTimeRef = 0
  /\ frames = {}

C2_Reset ==
  /\ [](lastCmd = "reset" => C2_ResetState)
  /\ [][(lastCmd = "reset" /\ Reset) => UNCHANGED vars]_vars

C2_Witness ==
  /\ lastCmd = "reset"
  /\ animationFrameRef # 0
  /\ now > TickMs

\* C3: once pause or reset has been issued, no animation step scheduled
\* before it is left pending, and until the next command no frame callback
\* changes timeLeft, isRunning or the start instant, or queues a change.
C3_Stopped == lastCmd \in {"pause", "reset"}

C3_NoStaleStep ==
  /\ [](C3_Stopped => frames = {})
  /\ [][(C3_Stopped /\ Frame)
          => UNCHANGED <<timeLeft, isRunning, startTimeRef,
                         pendTimeLeft, pendIsRunning>>]_vars

C3_Witness ==
  /\ lastCmd = "pause"
  /\ ~isRunning
  /\ timeLeft \in 1..(Duration - 1)
  /\ animationFrameRef # 0
  /\ frames = {}
  /\ now >= startTimeRef + (Duration - timeLeft + 1) * MsPerSecond

\* C4: timeLeft is in 0..60 in every reachable state, and so is every
\* value a frame callback queues for it, however late the frame.
C4_TimeLeftInRange ==
  /\ timeLeft \in 0..Duration
  /\ QueuedTimeLeft \in 0..Duration

C4_Witness ==
  /\ timeLeft = Duration
  /\ pendTimeLeft = <<0>>
  /\ lastCmd = "start"

\* C5: in every reachable state timeLeft = 0 implies isRunning = false.
C5_ZeroImpliesStopped == timeLeft = 0 => ~isRunning

\* C6: toggle in the Completed state gives timeLeft = 60 and isRunning = true
\* with the start instant unset, and the first step of the new run takes its
\* own timestamp as the start instant and leaves timeLeft = 60.
C6_RestartIsFresh ==
  (lastCmd = "restart" /\ sinceCmd >= 0) =>
    /\ timeLeft = Duration
    /\ isRunning
    /\ hasStarted
    /\ IF NothingQueued
       THEN startTimeRef = 0 /\ Cardinality(frames) = 1
       ELSE startTimeRef = now /\ pendTimeLeft = <<Duration>> /\ ~pendIsRunning

C6_Witness ==
  /\ lastCmd = "restart"
  /\ sinceCmd > 0
  /\ pendTimeLeft = <<Duration>>
  /\ startTimeRef = now

\* C7: the start instant is unset in every reachable state in which
\* isRunning = false.
C7_StoppedImpliesUnset == ~isRunning => startTimeRef = 0

\* C8: with hasStarted = true, a dot that is inactive at a value of timeLeft
\* in 0..59 is inactive at every smaller value; checked between the
\* rendered timeLeft and the smaller value the next render shows.
C8_Monotone ==
  (hasStarted /\ timeLeft <= LastSecond /\ QueuedTimeLeft < timeLeft) =>
    \A i \in 1..Len(circlePositions) :
      getCircleColor(circlePositions[i], timeLeft) = Dark
        => getCircleColor(circlePositions[i], QueuedTimeLeft) = Dark

\* C9: with hasStarted = true and 2 <= timeLeft <= 59, the number of active
\* non-center dots is ceil(((timeLeft - 1) / 59) * totalCircles).
C9_ActiveCount ==
  (hasStarted /\ timeLeft \in 2..LastSecond) =>
    Cardinality({i \in NonCenter : isActive(circlePositions[i])})
      = CeilDiv((timeLeft - 1) * totalCircles, LastSecond)

\* C10: in the state toggle reaches from Idle (hasStarted = true,
\* timeLeft = 60) every dot, the center included, is active.
C10_AllActiveAtStart ==
  (lastCmd = "start" /\ hasStarted /\ timeLeft = Duration) =>
    \A i \in 1..Len(circlePositions) : isActive(circlePositions[i])

\* C11: between the classes Idle, Running, Paused and Completed the only
\* changes are Idle -> Running, Running -> Paused, Paused -> Running and
\* Completed -> Running by toggle, Running -> Completed by the render of an
\* animation step, and any class -> Idle by reset.
Class ==
  IF ~hasStarted THEN "Idle"
  ELSE IF isRunning THEN "Running"
  ELSE IF timeLeft > 0 THEN "Paused"
  ELSE "Completed"

C11_ToggleMoves ==
  { <<"Idle", "Running">>, <<"Running", "Paused">>,
    <<"Paused", "Running">>, <<"Completed", "Running">> }

C11_Transitions ==
  [][Class' # Class =>
       \/ Reset /\ Class' = "Idle"
       \/ Toggle /\ <<Class, Class'>> \in C11_ToggleMoves
       \/ Render /\ Class = "Running" /\ Class' = "Completed"]_vars

\* C12: once no toggle or reset is issued any more, a run ends with
\* timeLeft = 0, isRunning = false, the start instant unset and no step
\* scheduled, unless the clock of the model stops while the run is alive.
C12_Done ==
  /\ timeLeft = 0
  /\ ~isRunning
  /\ startTimeRef = 0
  /\ frames = {}

C12_ClockStopped ==
  /\ now + LongTicks * TickMs > MaxTicks * TickMs
  /\ QueuedTimeLeft > 0
  /\ frames # {}

C12_Completes ==
  <>[][~(Toggle \/ Reset)]_vars
    => <>[](~isRunning \/ C12_Done \/ C12_ClockStopped)

\* C13 as stated: the start instant of a run is the time of its start or
\* resume command, so the first animation step, d ms after the command,
\* leaves timeLeft = max(60 - floor(d / 1000), 0).
C13_StartIsCommandTime ==
  (sinceCmd >= 0 /\ sinceCmd < SinceCap * TickMs /\ pendTimeLeft # NoUpdate)
    => pendTimeLeft[1] = Max(Duration - (sinceCmd \div MsPerSecond), 0)

\* C13 as amended: the start instant is the timestamp of the first animation
\* step that runs while it is unset. That step, however long after the
\* start or restart command, leaves timeLeft = 60; the instant is kept until
\* it is unset; every step leaves
\* timeLeft = max(60 - floor((timestamp - instant) / 1000), 0), and unsets
\* the instant when that is 0.
C13_StepResult ==
  pendTimeLeft # NoUpdate =>
    /\ IF startTimeRef = 0
       THEN pendTimeLeft = <<0>> /\ pendIsRunning
       ELSE /\ pendTimeLeft[1] > 0
            /\ pendTimeLeft[1] =
                 Max(Duration - ((now - startTimeRef) \div MsPerSecond), 0)
    /\ (lastCmd \in {"start", "restart"} /\ sinceCmd >= 0)
         => startTimeRef = now /\ pendTimeLeft = <<Duration>>

C13_StartIsFirstStep ==
  /\ []C13_StepResult
  /\ [][(startTimeRef # 0 /\ startTimeRef' # 0)
          => startTimeRef' = startTimeRef]_vars

C13_Witness ==
  /\ lastCmd = "start"
  /\ sinceCmd > 0
  /\ pendTimeLeft = <<Duration>>
  /\ startTimeRef = now

\* C14: in every reachable state at most one uncancelled animation step is
\* scheduled, and it is the one animationFrameRef remembers.
C14_OneStepScheduled ==
  /\ Cardinality(frames) <= 1
  /\ \A f \in frames : f.id = animationFrameRef

C14_Witness ==
  /\ isRunning
  /\ NothingQueued
  /\ timeLeft \in 1..(Duration - 1)
  /\ lastCmd = "start"
  /\ frames = {[id |-> animationFrameRef, isRunning |-> TRUE]}

\* C15: with hasStarted = true and timeLeft in 2..60, a non-center dot is
\* active exactly when its sequence index is <= totalCircles - activeCount,
\* activeCount = ceil(((timeLeft - 1) / 59) * totalCircles); the active
\* non-center dots form a prefix of the sequence order.
C15_Threshold ==
  totalCircles - CeilDiv((timeLeft - 1) * totalCircles, LastSecond)

C15_ActiveIffPrefix ==
  (hasStarted /\ timeLeft \in 2..Duration) =>
    LET threshold == C15_Threshold
        active == {i \in NonCenter : isActive(circlePositions[i])}
    IN  /\ active = {i \in NonCenter :
                       circlePositions[i].sequenceIndex <= threshold}
        /\ \A i \in active :
             i - 1 \in NonCenter =>
               /\ circlePositions[i - 1].sequenceIndex
                    < circlePositions[i].sequenceIndex
               /\ i - 1 \in active

C15_Witness ==
  /\ hasStarted
  /\ timeLeft = 31
  /\ isActive(circlePositions[1])
  /\ ~isActive(circlePositions[totalCircles])

\* C16: with hasStarted = true, at timeLeft = 0 every dot is inactive, at
\* timeLeft >= 1 the center dot is active, and at timeLeft = 1 every
\* non-center dot is inactive.
C16_EndOfCountdown ==
  hasStarted =>
    /\ timeLeft = 0 =>
         \A i \in 1..Len(circlePositions) : ~isActive(circlePositions[i])
    /\ timeLeft >= 1 =>
         \A i \in 1..Len(circlePositions) :
           circlePositions[i].ring = 0 => isActive(circlePositions[i])
    /\ timeLeft = 1 => \A i \in NonCenter : ~isActive(circlePositions[i])

C16_Witness ==
  /\ hasStarted
  /\ timeLeft = 1
  /\ isRunning

\* C17: no animation step (frame callback or its render) increases
\* timeLeft; timeLeft rises only by reset or by toggle from Completed, and
\* then to 60.
C17_NeverRises ==
  /\ [][timeLeft' > timeLeft =>
          /\ timeLeft' = Duration
          /\ Reset \/ (Toggle /\ ~isRunning /\ timeLeft = 0)]_vars
  /\ [][Frame => pendTimeLeft'[1] <= QueuedTimeLeft]_vars

C17_Witness ==
  /\ lastCmd = "resume"
  /\ sinceCmd >= 0
  /\ pendTimeLeft # NoUpdate
  /\ pendTimeLeft[1] < timeLeft

\* C18: in every state with no update queued, an animation step is
\* scheduled if and only if isRunning = true and timeLeft > 0.
C18_ScheduledIffRunning ==
  NothingQueued => (frames # {} <=> (isRunning /\ timeLeft > 0))

C18_Witness ==
  /\ NothingQueued
  /\ lastCmd = "resume"
  /\ isRunning
  /\ timeLeft \in 1..(Duration - 1)
  /\ frames # {}

\* C19: with hasStarted = false, isRunning = false, timeLeft = 60 and the
\* start instant is unset; hasStarted becomes true only by toggle and false
\* only by reset.
C19_IdleState ==
  ~hasStarted => (~isRunning /\ timeLeft = Duration /\ startTimeRef = 0)

C19_Idle ==
  /\ []C19_IdleState
  /\ [][/\ (~hasStarted /\ hasStarted') => Toggle
        /\ (hasStarted /\ ~hasStarted') => Reset]_vars

C19_Witness ==
  /\ ~hasStarted
  /\ lastCmd = "reset"
  /\ startTimeRef = 0
  /\ animationFrameRef # 0
  /\ now >= 3 * TickMs

====
